---- MODULE Spec2Model ----
(***************************************************************************)
(* Model of the Huffman compression engine of file-compression-webapp      *)
(* (src/huffman_compression.py).                                           *)
(*                                                                         *)
(* Characters, bytes and text are code points (integers): 'a' is 97, the   *)
(* bit characters '0' and '1' are 48 and 49.  latin-1 maps byte n to code  *)
(* point n, and utf-8 does the same below 128, so both codecs are range    *)
(* checks on the same integers.  Python dicts are sequences of             *)
(* <<key, value>> pairs in insertion order.                                *)
(***************************************************************************)
EXTENDS Integers, Sequences, FiniteSets, TLC

\* ------------------------------------------------------------------ bounds
MaxLen == 4
MaxFreq == 3
Alphabet == {97, 98, 99}
TreeAlphabet == {97, 98, 99, 100}
ExampleInput == <<97, 97, 97, 98, 98, 98, 99, 99, 100>>
Percentages == {-10, 0, 10, 25, 50, 75, 100, 150}

NoneChar == -1
NoFile == <<"nofile">>

\* ------------------------------------------------------------ small helpers
RECURSIVE SeqsUpTo(_)
SeqsUpTo(n) ==
    IF n = 0 THEN {<<>>}
    ELSE LET S == SeqsUpTo(n - 1)
         IN S \cup {Append(s, c) : s \in {t \in S : Len(t) = n - 1}, c \in Alphabet}

Inputs == SeqsUpTo(MaxLen) \cup {ExampleInput}

Keys(d) == {d[i][1] : i \in 1..Len(d)}
Lookup(d, k) == LET i == CHOOSE j \in 1..Len(d) : d[j][1] = k IN d[i][2]

RECURSIVE SumFreq(_)
SumFreq(d) == IF d = <<>> THEN 0 ELSE d[1][2] + SumFreq(Tail(d))

\* ------------------------------------------------------- build_frequency_dict
DictIncr(d, ch) ==
    IF ch \in Keys(d)
    THEN [i \in 1..Len(d) |-> IF d[i][1] = ch THEN <<ch, d[i][2] + 1>> ELSE d[i]]
    ELSE Append(d, <<ch, 1>>)

RECURSIVE FreqLoop(_, _)
FreqLoop(data, d) ==
    IF data = <<>> THEN d ELSE FreqLoop(Tail(data), DictIncr(d, Head(data)))

build_frequency_dict(data) == FreqLoop(data, <<>>)

\* ------------------------------------------------------------------- heapq
\* HuffmanNode: char, freq, and kids = <<>> (left = right = None) or <<left, right>>
HuffmanNode(char, freq) == [char |-> char, freq |-> freq, kids |-> <<>>]

\* HuffmanNode.__lt__
\* __lt__ with the comparison turned round
NodeLt_reversed(x, y) == x.freq > y.freq

NodeLt(x, y) == x.freq < y.freq

\* positions are 0-based as in heapq; heap[pos] is h[pos + 1]
RECURSIVE SiftDownLoop(_, _, _, _)
SiftDownLoop(h, startpos, pos, newitem) ==
    IF pos > startpos
    THEN LET parentpos == (pos - 1) \div 2
             parent == h[parentpos + 1]
         IN IF NodeLt(newitem, parent)
            THEN SiftDownLoop([h EXCEPT ![pos + 1] = parent], startpos, parentpos, newitem)
            ELSE [h EXCEPT ![pos + 1] = newitem]
    ELSE [h EXCEPT ![pos + 1] = newitem]

siftdown(h, startpos, pos) == SiftDownLoop(h, startpos, pos, h[pos + 1])

RECURSIVE SiftUpLoop(_, _, _)
SiftUpLoop(h, pos, newitem) ==
    LET endpos == Len(h)
        childpos == 2 * pos + 1
    IN IF childpos < endpos
       THEN LET rightpos == childpos + 1
                c == IF rightpos < endpos /\ ~NodeLt(h[childpos + 1], h[rightpos + 1])
                     THEN rightpos ELSE childpos
            IN SiftUpLoop([h EXCEPT ![pos + 1] = h[c + 1]], c, newitem)
       ELSE [heap |-> [h EXCEPT ![pos + 1] = newitem], pos |-> pos]

siftup(h, pos) ==
    LET r == SiftUpLoop(h, pos, h[pos + 1])
    IN siftdown(r.heap, pos, r.pos)

RECURSIVE HeapifyLoop(_, _)
HeapifyLoop(h, i) == IF i < 0 THEN h ELSE HeapifyLoop(siftup(h, i), i - 1)

heapify(h) == HeapifyLoop(h, (Len(h) \div 2) - 1)

heappop(h) ==
    LET lastelt == h[Len(h)]
        rest == SubSeq(h, 1, Len(h) - 1)
    IN IF rest # <<>>
       THEN [item |-> rest[1], heap |-> siftup([rest EXCEPT ![1] = lastelt], 0)]
       ELSE [item |-> lastelt, heap |-> rest]

heappush(h, item) == siftdown(Append(h, item), 0, Len(h))

\* ---------------------------------------------------------- build_huffman_tree
\* the heap built and heapified from the frequency dict
InitialHeap(freq_dict) ==
    heapify([i \in 1..Len(freq_dict) |->
                HuffmanNode(freq_dict[i][1], freq_dict[i][2])])

\* merged = HuffmanNode(None, left.freq + right.freq) with its children, pushed
MergePush(h, left, right) ==
    heappush(h, [char |-> NoneChar, freq |-> left.freq + right.freq,
                 kids |-> <<left, right>>])

\* right = heapq.heappop(heap), after left was popped
MergeRight(left, p2) == MergePush(p2.heap, left, p2.item)

\* left = heapq.heappop(heap)
MergeLeft(p1) == MergeRight(p1.item, heappop(p1.heap))

\* one iteration of the while loop
MergeStep(h) == MergeLeft(heappop(h))

RECURSIVE MergeLoop(_)
MergeLoop(h) == IF Len(h) > 1 THEN MergeLoop(MergeStep(h)) ELSE h

\* heap[0] if heap else None: <<>> for None, <<root>> otherwise
TreeResult(h) == IF h # <<>> THEN <<h[1]>> ELSE <<>>

build_huffman_tree(freq_dict) == TreeResult(MergeLoop(InitialHeap(freq_dict)))

\* --------------------------------------------------------- build_huffman_codes
\* dict.update(other): overwrite existing keys in place, append new ones
RECURSIVE DictUpdate(_, _)
DictUpdate(d, other) ==
    IF other = <<>> THEN d
    ELSE LET kv == Head(other)
             d2 == IF kv[1] \in Keys(d)
                   THEN [i \in 1..Len(d) |-> IF d[i][1] = kv[1] THEN kv ELSE d[i]]
                   ELSE Append(d, kv)
         IN DictUpdate(d2, Tail(other))

\* traverse with the right edge labelled like the left one
RECURSIVE traverse_same_bit(_, _)
traverse_same_bit(node, current_code) ==
    IF node.kids = <<>>
    THEN <<<<node.char, current_code>>>>
    ELSE DictUpdate(traverse_same_bit(node.kids[1], Append(current_code, 48)),
                    traverse_same_bit(node.kids[2], Append(current_code, 48)))

RECURSIVE traverse(_, _)
traverse(node, current_code) ==
    IF node.kids = <<>>
    THEN <<<<node.char, current_code>>>>
    ELSE DictUpdate(traverse(node.kids[1], Append(current_code, 48)),
                    traverse(node.kids[2], Append(current_code, 49)))

build_huffman_codes(root) == IF root = <<>> THEN <<>> ELSE traverse(root[1], <<>>)

\* ------------------------------------------------------------- text codecs
\* str.encode('utf-8') for code points below 2048
RECURSIVE Utf8Encode(_)
Utf8Encode(s) ==
    IF s = <<>> THEN <<>>
    ELSE LET c == Head(s)
         IN (IF c < 128 THEN <<c>> ELSE <<192 + (c \div 64), 128 + (c % 64)>>)
            \o Utf8Encode(Tail(s))

\* bytes.decode('utf-8'): [err, out]
RECURSIVE Utf8DecodeLoop(_, _)
Utf8DecodeLoop(b, out) ==
    IF b = <<>> THEN [err |-> FALSE, out |-> out]
    ELSE IF b[1] < 128 THEN Utf8DecodeLoop(Tail(b), Append(out, b[1]))
    ELSE IF b[1] >= 194 /\ b[1] < 224 /\ Len(b) >= 2 /\ b[2] >= 128 /\ b[2] < 192
         THEN Utf8DecodeLoop(SubSeq(b, 3, Len(b)), Append(out, (b[1] - 192) * 64 + (b[2] - 128)))
    ELSE [err |-> TRUE, out |-> <<>>]

Utf8Decode(b) == Utf8DecodeLoop(b, <<>>)

\* str.encode('latin-1') / bytes.decode('latin-1'): byte n <-> code point n
Latin1Decode(b) == [i \in 1..Len(b) |-> b[i]]
Latin1Encode(s) ==
    IF \E i \in 1..Len(s) : s[i] > 255
    THEN [err |-> TRUE, out |-> <<>>]
    ELSE [err |-> FALSE, out |-> [i \in 1..Len(s) |-> s[i]]]

\* -------------------------------------------------------------------- zlib
RECURSIVE AdlerLoop(_, _, _)
AdlerLoop(b, a, s) ==
    IF b = <<>> THEN <<a, s>>
    ELSE LET a2 == (a + Head(b)) % 65521
         IN AdlerLoop(Tail(b), a2, (s + a2) % 65521)

Adler32(b) ==
    LET r == AdlerLoop(b, 1, 0)
    IN <<r[2] \div 256, r[2] % 256, r[1] \div 256, r[1] % 256>>

\* zlib.compress(data, level=9): header 78 DA, the deflate body, Adler-32.
\* The deflate body is written as one final stored block, which every
\* inflater accepts; zlib's choice of block type does not change what
\* zlib.decompress returns.
zlib_compress(b) ==
    LET n == Len(b)
    IN <<120, 218>>
       \o <<1, n % 256, n \div 256, 255 - (n % 256), 255 - (n \div 256)>>
       \o b
       \o Adler32(b)

\* zlib.decompress(data): [err, out]
zlib_decompress(z) ==
    LET bad == [err |-> TRUE, out |-> <<>>]
    IN IF Len(z) < 2 THEN bad
       ELSE IF ~(/\ z[1] % 16 = 8
                 /\ z[1] \div 16 <= 7
                 /\ (z[1] * 256 + z[2]) % 31 = 0
                 /\ (z[2] \div 32) % 2 = 0) THEN bad
       ELSE IF Len(z) < 7 THEN bad
       ELSE IF z[3] % 8 # 1 THEN bad
       ELSE LET n == z[4] + 256 * z[5]
            IN IF z[6] # 255 - z[4] \/ z[7] # 255 - z[5] THEN bad
               ELSE IF Len(z) # 7 + n + 4 THEN bad
               ELSE LET body == SubSeq(z, 8, 7 + n)
                    IN IF SubSeq(z, 8 + n, Len(z)) # Adler32(body) THEN bad
                       ELSE [err |-> FALSE, out |-> body]

\* ------------------------------------------------------------------ base64
B64Char(i) ==
    IF i < 26 THEN 65 + i
    ELSE IF i < 52 THEN 71 + i
    ELSE IF i < 62 THEN i - 4
    ELSE IF i = 62 THEN 43 ELSE 47

\* table_a2b_base64: 64 for a character outside the alphabet
B64Val(c) ==
    IF c >= 65 /\ c <= 90 THEN c - 65
    ELSE IF c >= 97 /\ c <= 122 THEN c - 71
    ELSE IF c >= 48 /\ c <= 57 THEN c + 4
    ELSE IF c = 43 THEN 62
    ELSE IF c = 47 THEN 63 ELSE 64

B64Pad == 61

\* base64.b64encode(b).decode('utf-8')
RECURSIVE b64encode(_)
b64encode(b) ==
    IF b = <<>> THEN <<>>
    ELSE IF Len(b) = 1
    THEN <<B64Char(b[1] \div 4), B64Char((b[1] % 4) * 16), B64Pad, B64Pad>>
    ELSE IF Len(b) = 2
    THEN <<B64Char(b[1] \div 4),
           B64Char((b[1] % 4) * 16 + (b[2] \div 16)),
           B64Char((b[2] % 16) * 4), B64Pad>>
    ELSE <<B64Char(b[1] \div 4),
           B64Char((b[1] % 4) * 16 + (b[2] \div 16)),
           B64Char((b[2] % 16) * 4 + (b[3] \div 64)),
           B64Char(b[3] % 64)>> \o b64encode(SubSeq(b, 4, Len(b)))

\* binascii.a2b_base64 in non-strict mode: st = [quad_pos, leftchar, pads, out]
RECURSIVE A2bLoop(_, _)
A2bLoop(s, st) ==
    IF s = <<>>
    THEN IF st.quad_pos # 0 THEN [err |-> TRUE, out |-> <<>>]
         ELSE [err |-> FALSE, out |-> st.out]
    ELSE LET c == Head(s)
             v == B64Val(c)
         IN IF c = B64Pad
            THEN IF st.quad_pos >= 2 /\ st.quad_pos + st.pads + 1 >= 4
                 THEN [err |-> FALSE, out |-> st.out]
                 ELSE A2bLoop(Tail(s), IF st.quad_pos >= 2
                                       THEN [st EXCEPT !.pads = @ + 1] ELSE st)
            ELSE IF v >= 64 THEN A2bLoop(Tail(s), st)
            ELSE A2bLoop(Tail(s),
                   CASE st.quad_pos = 0 ->
                          [quad_pos |-> 1, leftchar |-> v, pads |-> 0, out |-> st.out]
                     [] st.quad_pos = 1 ->
                          [quad_pos |-> 2, leftchar |-> v % 16, pads |-> 0,
                           out |-> Append(st.out, st.leftchar * 4 + (v \div 16))]
                     [] st.quad_pos = 2 ->
                          [quad_pos |-> 3, leftchar |-> v % 4, pads |-> 0,
                           out |-> Append(st.out, st.leftchar * 16 + (v \div 4))]
                     [] OTHER ->
                          [quad_pos |-> 0, leftchar |-> 0, pads |-> 0,
                           out |-> Append(st.out, st.leftchar * 64 + v)])

\* base64.b64decode(s) for a str argument: [err, out]
b64decode(s) ==
    IF \E i \in 1..Len(s) : s[i] > 127
    THEN [err |-> TRUE, out |-> <<>>]
    ELSE A2bLoop(s, [quad_pos |-> 0, leftchar |-> 0, pads |-> 0, out |-> <<>>])

\* ---------------------------------------------------------------- compress
\* sorted(freq_dict.items(), key=lambda x: x[1]): stable, ties keep dict order
InsertByFreq(s, kv) ==
    LET k == Cardinality({i \in 1..Len(s) : s[i][2] <= kv[2]})
    IN SubSeq(s, 1, k) \o <<kv>> \o SubSeq(s, k + 1, Len(s))

RECURSIVE SortLoop(_, _)
SortLoop(d, acc) ==
    IF d = <<>> THEN acc ELSE SortLoop(Tail(d), InsertByFreq(acc, Head(d)))

sorted_by_freq(freq_dict) == SortLoop(freq_dict, <<>>)

\* threshold = total_chars * (1 - (compression_percentage / 100)), kept as
\* 100 * threshold.  The float product equals the exact one in every
\* comparison the loop makes for total_chars below 10.
Threshold100(total_chars, compression_percentage) ==
    total_chars * (100 - compression_percentage)

\* the loop test with > in place of >=
BudgetMet_strict(current_removed_count, threshold100) ==
    current_removed_count * 100 > threshold100

\* current_removed_count >= threshold
BudgetMet(current_removed_count, threshold100) ==
    current_removed_count * 100 >= threshold100

\* the filter loop; steps counts the symbols added
RECURSIVE FilterLoop(_, _, _)
FilterLoop(sorted_chars, threshold100, st) ==
    IF st.steps = Len(sorted_chars) THEN st
    ELSE IF BudgetMet(st.current_removed_count, threshold100) THEN st
    ELSE LET kv == sorted_chars[st.steps + 1]
         IN FilterLoop(sorted_chars, threshold100,
                [chars_to_remove |-> st.chars_to_remove \cup {kv[1]},
                 current_removed_count |-> st.current_removed_count + kv[2],
                 steps |-> st.steps + 1])

\* ''.join(huffman_codes.get(char, '') for char in data)
RECURSIVE EncodeLoop(_, _)
EncodeLoop(data, huffman_codes) ==
    IF data = <<>> THEN <<>>
    ELSE (IF Head(data) \in Keys(huffman_codes)
          THEN Lookup(huffman_codes, Head(data)) ELSE <<>>)
         \o EncodeLoop(Tail(data), huffman_codes)

\* the locals of a compress call that returned before computing any
NoLocals ==
    [filtered |-> FALSE, built |-> FALSE,
     total_chars |-> 0, threshold100 |-> 0, sorted_chars |-> <<>>,
     chars_to_remove |-> {}, current_removed_count |-> 0, steps |-> 0,
     filtered_freq_dict |-> <<>>, huffman_tree |-> <<>>, compressed_data |-> <<>>]

\* lines 122-132: encode, zlib, base64, return
compress_encode(loc, huffman_codes, compressed_data) ==
    [path |-> "coded", err |-> "none",
     ret_data |-> b64encode(zlib_compress(Utf8Encode(compressed_data))),
     ret_codes |-> huffman_codes,
     locals |-> [loc EXCEPT !.compressed_data = compressed_data]]

\* lines 119-123: the code table and the bit string
compress_codes(data, loc, huffman_codes) ==
    compress_encode(loc, huffman_codes, EncodeLoop(data, huffman_codes))

\* lines 116-120: the tree
compress_tree(data, loc, huffman_tree) ==
    compress_codes(data, [loc EXCEPT !.built = TRUE, !.huffman_tree = huffman_tree],
                   build_huffman_codes(huffman_tree))

\* lines 112-117: the fallback return, or on to the tree
compress_rebuilt(data, loc, filtered_freq_dict) ==
    IF filtered_freq_dict = <<>>
    THEN [path |-> "fallback", err |-> "none", ret_data |-> data, ret_codes |-> <<>>,
          locals |-> loc]
    ELSE compress_tree(data, loc, build_huffman_tree(filtered_freq_dict))

\* lines 106-110: the frequency dict without the removed characters
compress_filtered(data, freq_dict, loc, flt) ==
    compress_rebuilt(data,
        [loc EXCEPT !.filtered = TRUE,
                    !.chars_to_remove = flt.chars_to_remove,
                    !.current_removed_count = flt.current_removed_count,
                    !.steps = flt.steps,
                    !.filtered_freq_dict =
                        SelectSeq(freq_dict, LAMBDA kv : kv[1] \notin flt.chars_to_remove)],
        SelectSeq(freq_dict, LAMBDA kv : kv[1] \notin flt.chars_to_remove))

\* lines 95-104: the sort and the filter loop
compress_sorted(data, freq_dict, total_chars, threshold100, sorted_chars) ==
    compress_filtered(data, freq_dict,
        [NoLocals EXCEPT !.total_chars = total_chars,
                         !.threshold100 = threshold100,
                         !.sorted_chars = sorted_chars],
        FilterLoop(sorted_chars, threshold100,
            [chars_to_remove |-> {}, current_removed_count |-> 0, steps |-> 0]))

\* lines 88-95: total_chars and threshold
compress_total(data, compression_percentage, freq_dict, total_chars) ==
    compress_sorted(data, freq_dict, total_chars,
                    Threshold100(total_chars, compression_percentage),
                    sorted_by_freq(freq_dict))

\* lines 85-88: the frequency dict
compress_counted(data, compression_percentage, freq_dict) ==
    compress_total(data, compression_percentage, freq_dict, SumFreq(freq_dict))

\* HuffmanCompressor.compress: the returned pair (ret_data, ret_codes) with
\* the locals of the call; path names the return statement taken, err the
\* exception raised (the function has no raise)
compress(data, compression_percentage) ==
    IF data = <<>>
    THEN [path |-> "empty", err |-> "none", ret_data |-> <<>>, ret_codes |-> <<>>,
          locals |-> NoLocals]
    ELSE compress_counted(data, compression_percentage, build_frequency_dict(data))

\* -------------------------------------------------------------- decompress
\* reverse_codes = {code: char ...}: a later entry with the same code wins
InReverse(huffman_codes, code) == \E i \in 1..Len(huffman_codes) : huffman_codes[i][2] = code
ReverseLookup(huffman_codes, code) ==
    LET i == CHOOSE j \in 1..Len(huffman_codes) :
                 /\ huffman_codes[j][2] = code
                 /\ \A k \in (j + 1)..Len(huffman_codes) : huffman_codes[k][2] # code
    IN huffman_codes[i][1]

RECURSIVE DecodeLoop(_, _, _, _)
DecodeLoop(bits, huffman_codes, current_code, decompressed_data) ==
    IF bits = <<>> THEN decompressed_data
    ELSE LET cc == Append(current_code, Head(bits))
         IN IF InReverse(huffman_codes, cc)
            THEN DecodeLoop(Tail(bits), huffman_codes, <<>>,
                            Append(decompressed_data, ReverseLookup(huffman_codes, cc)))
            ELSE DecodeLoop(Tail(bits), huffman_codes, cc, decompressed_data)

\* HuffmanCompressor.decompress: [err, out]; err names the step that raised
decompress(compressed_data, huffman_codes) ==
    LET b64 == b64decode(compressed_data)
        z == zlib_decompress(b64.out)
        txt == Utf8Decode(z.out)
    IN IF b64.err THEN [err |-> "base64", out |-> <<>>]
       ELSE IF z.err THEN [err |-> "zlib", out |-> <<>>]
       ELSE IF txt.err THEN [err |-> "utf8", out |-> <<>>]
       ELSE [err |-> "none", out |-> DecodeLoop(txt.out, huffman_codes, <<>>, <<>>)]

\* ------------------------------------------------------------------ pickle
\* the dict written by pickle.dump: original_length is <<n>>, or <<>> when
\* the key is absent (dict.get returns None)
Container(huffman_codes, compressed_data, original_length) ==
    [codes |-> huffman_codes, compressed_data |-> compressed_data,
     original_length |-> original_length]

\* a file is <<"pickle", object>>, <<"bytes", content>> or NoFile
pickle_dump(obj) == <<"pickle", obj>>
pickle_load(f) ==
    IF f[1] = "pickle" THEN [err |-> FALSE, obj |-> f[2]]
    ELSE [err |-> TRUE, obj |-> Container(<<>>, <<>>, <<>>)]

RECURSIVE CodesSize(_)
CodesSize(huffman_codes) ==
    IF huffman_codes = <<>> THEN 0
    ELSE Len(Utf8Encode(<<Head(huffman_codes)[1]>>)) + 3
         + Len(Head(huffman_codes)[2]) + 3 + CodesSize(Tail(huffman_codes))

\* os.path.getsize of a protocol-4 pickle of the container
PickleSize(obj) ==
    65 + Len(obj.compressed_data) + 2 + CodesSize(obj.codes)
       + (IF Len(obj.codes) = 0 THEN 0 ELSE IF Len(obj.codes) = 1 THEN 1 ELSE 2)

\* ------------------------------------------------------------ compress_file
NoRet == [original_size |-> 0, compressed_size |-> 0, saved |-> 0]

\* lines 200-214: the sizes, the ratio and the return; saved / original_size
\* * 100 is compression_ratio before rounding
compress_file_return(c, file, original_size, compressed_size) ==
    IF original_size = 0
    THEN [file |-> file, c |-> c, err |-> "ValueError", cause |-> "ZeroDivisionError",
          ret |-> NoRet]
    ELSE [file |-> file, c |-> c, err |-> "none", cause |-> "none",
          ret |-> [original_size |-> original_size,
                   compressed_size |-> compressed_size,
                   saved |-> original_size - compressed_size]]

\* lines 187-202: the container written to output_path
compress_file_write(data, c, obj) ==
    compress_file_return(c, pickle_dump(obj), Len(data), PickleSize(obj))

\* lines 181-198
compress_file_compressed(data, data_str, c) ==
    compress_file_write(data, c, Container(c.ret_codes, c.ret_data, <<Len(data_str)>>))

\* lines 178-185
compress_file_decoded(data, data_str, compression_percentage) ==
    compress_file_compressed(data, data_str, compress(data_str, compression_percentage))

\* HuffmanCompressor.compress_file on an input file holding the bytes `data`:
\* the file left at output_path, the error raised and the dict returned
compress_file(data, compression_percentage) ==
    compress_file_decoded(data, Latin1Decode(data), compression_percentage)

\* ---------------------------------------------------------- decompress_file
\* decompress_file without the truncation
Truncate_none(s, original_length) == s

\* decompressed_data[:original_length]: the first n symbols, or for a
\* negative n all but the last -n; everything when original_length is None
Truncate(s, original_length) ==
    IF original_length = <<>> THEN s
    ELSE IF original_length[1] >= 0
    THEN SubSeq(s, 1, IF original_length[1] < Len(s) THEN original_length[1] ELSE Len(s))
    ELSE SubSeq(s, 1, Len(s) + original_length[1])

\* decompress_file opening the output for writing before it decodes
decompress_file_write_first(in_file, old_out) ==
    LET ld == pickle_load(in_file)
        d == decompress(ld.obj.compressed_data, ld.obj.codes)
        decompressed_data == Truncate(d.out, ld.obj.original_length)
        enc == Latin1Encode(decompressed_data)
    IN IF ld.err
       THEN [file |-> old_out, err |-> "ValueError", cause |-> "pickle", decoded |-> <<>>]
       ELSE IF d.err # "none"
       THEN [file |-> <<"bytes", <<>>>>, err |-> "ValueError", cause |-> d.err,
             decoded |-> <<>>]
       ELSE IF enc.err
       THEN [file |-> <<"bytes", <<>>>>, err |-> "ValueError", cause |-> "latin1",
             decoded |-> <<>>]
       ELSE [file |-> <<"bytes", enc.out>>, err |-> "none", cause |-> "none",
             decoded |-> decompressed_data]

\* HuffmanCompressor.decompress_file: the file left at output_path, the error
\* raised, and decoded = the data handed to the write
decompress_file(in_file, old_out) ==
    LET ld == pickle_load(in_file)
        d == decompress(ld.obj.compressed_data, ld.obj.codes)
        decompressed_data == Truncate(d.out, ld.obj.original_length)
        enc == Latin1Encode(decompressed_data)
    IN IF ld.err
       THEN [file |-> old_out, err |-> "ValueError", cause |-> "pickle", decoded |-> <<>>]
       ELSE IF d.err # "none"
       THEN [file |-> old_out, err |-> "ValueError", cause |-> d.err, decoded |-> <<>>]
       ELSE IF enc.err
       THEN [file |-> <<"bytes", <<>>>>, err |-> "ValueError", cause |-> "latin1",
             decoded |-> <<>>]
       ELSE [file |-> <<"bytes", enc.out>>, err |-> "none", cause |-> "none",
             decoded |-> decompressed_data]

\* ------------------------------------------------------------ state machine
VARIABLES
    input,      \* the input string / the bytes of the input file
    pct,        \* compression_percentage
    calls,      \* the operations called so far, in order
    cres,       \* what the last compress call returned, with its locals
    dres,       \* what the last decompress call returned or raised
    fres,       \* what the last compress_file / decompress_file returned or raised
    huffFile,   \* the container file
    outFile,    \* the file at decompress_file's output_path
    freq_map,   \* build_huffman_tree's argument, when it is run step by step
    heap,       \* its heap
    merges,     \* the loop iterations done
    tpc,        \* where it is: "off", "start", "loop", "returned", "coded"
    tree,       \* what it returned: <<>> (None) or <<root>>
    codes,      \* what build_huffman_codes made of that
    ppc,        \* where compress_pdf is: "off", "start", "loop", "returned", "raised"
    is_pdf,     \* whether input_path ends in .pdf
    original_size,  \* os.path.getsize(input_path)
    out_size,   \* the size of the file at output_path, NoSize when there is none
    method_i,   \* the index of the next entry of compression_methods
    best_compression_result,    \* <<>> (None) or <<dict>>
    pdf_ret     \* what compress_pdf returned: <<>> or <<dict>>

fvars == <<input, pct, calls, cres, dres, fres, huffFile, outFile>>
tvars == <<freq_map, heap, merges, tpc, tree, codes>>
pvars == <<ppc, is_pdf, original_size, out_size, method_i, best_compression_result, pdf_ret>>
vars == <<input, pct, calls, cres, dres, fres, huffFile, outFile,
          freq_map, heap, merges, tpc, tree, codes,
          ppc, is_pdf, original_size, out_size, method_i, best_compression_result, pdf_ret>>

\* no file at output_path
NoSize == -1

\* compress_pdf is not running
PdfOff ==
    /\ ppc = "off"
    /\ is_pdf = FALSE
    /\ original_size = 0
    /\ out_size = NoSize
    /\ method_i = 0
    /\ best_compression_result = <<>>
    /\ pdf_ret = <<>>

NoCall == [path |-> "uncalled", err |-> "none", ret_data |-> <<>>, ret_codes |-> <<>>, locals |-> NoLocals]
NoDres == [err |-> "uncalled", out |-> <<>>]
NoFres == [err |-> "uncalled", cause |-> "none", ret |-> NoRet, decoded |-> <<>>]

StaleOut == <<"bytes", <<120>>>>

\* files a client may post to the decompress route instead of an untouched
\* container: not a pickle, a payload that is not base64, a payload that is
\* base64 of something that is not a zlib stream, a valid container whose
\* original_length is short, absent or negative, a code table with a character that
\* latin-1 cannot encode, and the current container with its payload cut
GoodPayload == b64encode(zlib_compress(<<48, 49, 49, 48>>))
GoodCodes == <<<<97, <<48>>>>, <<98, <<49>>>>>>
Uploads(cur) ==
    { <<"bytes", <<1, 2, 3>>>>,
      pickle_dump(Container(GoodCodes, <<97, 98, 99>>, <<4>>)),
      pickle_dump(Container(GoodCodes, <<65, 65, 65, 65>>, <<4>>)),
      pickle_dump(Container(GoodCodes, GoodPayload, <<2>>)),
      pickle_dump(Container(GoodCodes, GoodPayload, <<>>)),
      pickle_dump(Container(GoodCodes, GoodPayload, <<-1>>)),
      pickle_dump(Container(<<<<97, <<48>>>>, <<300, <<49>>>>>>, GoodPayload, <<4>>)) }
    \cup (IF cur # NoFile /\ Len(cur[2].compressed_data) > 0
          THEN {pickle_dump([cur[2] EXCEPT !.compressed_data =
                                 SubSeq(@, 1, Len(@) - 1)])}
          ELSE {})

Init ==
    /\ input \in Inputs
    /\ pct \in Percentages
    /\ calls = <<>>
    /\ cres = NoCall
    /\ dres = NoDres
    /\ fres = NoFres
    /\ huffFile = NoFile
    /\ outFile \in {NoFile, StaleOut}
    /\ freq_map = <<>>
    /\ heap = <<>>
    /\ merges = 0
    /\ tpc = "off"
    /\ tree = <<>>
    /\ codes = <<>>
    /\ PdfOff

Compress ==
    /\ calls = <<>>
    /\ cres' = compress(input, pct)
    /\ calls' = Append(calls, "compress")
    /\ UNCHANGED <<input, pct, dres, fres, huffFile, outFile>>
    /\ UNCHANGED tvars
    /\ UNCHANGED pvars

Decompress ==
    /\ calls = <<"compress">>
    /\ dres' = decompress(cres.ret_data, cres.ret_codes)
    /\ calls' = Append(calls, "decompress")
    /\ UNCHANGED <<input, pct, cres, fres, huffFile, outFile>>
    /\ UNCHANGED tvars
    /\ UNCHANGED pvars

CompressFile ==
    /\ calls = <<>>
    /\ \E r \in {compress_file(input, pct)} :
          /\ huffFile' = r.file
          /\ cres' = r.c
          /\ fres' = [err |-> r.err, cause |-> r.cause, ret |-> r.ret, decoded |-> <<>>]
    /\ calls' = Append(calls, "compress_file")
    /\ UNCHANGED <<input, pct, dres, outFile>>
    /\ UNCHANGED tvars
    /\ UNCHANGED pvars

Upload ==
    /\ calls \in {<<>>, <<"compress_file">>}
    /\ \E f \in Uploads(huffFile) : huffFile' = f
    /\ calls' = Append(calls, "upload")
    /\ UNCHANGED <<input, pct, cres, dres, fres, outFile>>
    /\ UNCHANGED tvars
    /\ UNCHANGED pvars

DecompressFile ==
    /\ calls # <<>>
    /\ calls[Len(calls)] \in {"compress_file", "upload"}
    /\ \E r \in {decompress_file(huffFile, outFile)} :
          /\ outFile' = r.file
          /\ fres' = [err |-> r.err, cause |-> r.cause, ret |-> NoRet, decoded |-> r.decoded]
    /\ calls' = Append(calls, "decompress_file")
    /\ UNCHANGED <<input, pct, cres, dres, huffFile>>
    /\ UNCHANGED tvars
    /\ UNCHANGED pvars

Next == Compress \/ Decompress \/ CompressFile \/ Upload \/ DecompressFile

Spec == Init /\ [][Next]_vars

\* ------------------------------------- build_huffman_tree, step by step
\* frequency dicts: distinct symbols in any insertion order, counts 1..MaxFreq
RECURSIVE FreqMapsOfLen(_)
FreqMapsOfLen(n) ==
    IF n = 0 THEN {<<>>}
    ELSE UNION {{Append(d, <<c, f>>) : c \in TreeAlphabet \ Keys(d), f \in 1..MaxFreq} :
                d \in FreqMapsOfLen(n - 1)}

FreqMaps == UNION {FreqMapsOfLen(n) : n \in 0..Cardinality(TreeAlphabet)}

TreeInit ==
    /\ input = <<>>
    /\ pct = 100
    /\ calls = <<>>
    /\ cres = NoCall
    /\ dres = NoDres
    /\ fres = NoFres
    /\ huffFile = NoFile
    /\ outFile = NoFile
    /\ freq_map \in FreqMaps
    /\ heap = <<>>
    /\ merges = 0
    /\ tpc = "start"
    /\ tree = <<>>
    /\ codes = <<>>
    /\ PdfOff

Heapify ==
    /\ tpc = "start"
    /\ heap' = InitialHeap(freq_map)
    /\ tpc' = "loop"
    /\ UNCHANGED <<freq_map, merges, tree, codes>>
    /\ UNCHANGED fvars
    /\ UNCHANGED pvars

Merge ==
    /\ tpc = "loop"
    /\ Len(heap) > 1
    /\ heap' = MergeStep(heap)
    /\ merges' = merges + 1
    /\ UNCHANGED <<freq_map, tpc, tree, codes>>
    /\ UNCHANGED fvars
    /\ UNCHANGED pvars

Return ==
    /\ tpc = "loop"
    /\ ~(Len(heap) > 1)
    /\ tree' = TreeResult(heap)
    /\ tpc' = "returned"
    /\ UNCHANGED <<freq_map, heap, merges, codes>>
    /\ UNCHANGED fvars
    /\ UNCHANGED pvars

BuildCodes ==
    /\ tpc = "returned"
    /\ codes' = build_huffman_codes(tree)
    /\ tpc' = "coded"
    /\ UNCHANGED <<freq_map, heap, merges, tree>>
    /\ UNCHANGED fvars
    /\ UNCHANGED pvars

TreeNext == Heapify \/ Merge \/ Return \/ BuildCodes

SpecTree == TreeInit /\ [][TreeNext]_vars

\* ------------------------------------------------ compress_pdf, step by step
\* the largest file a compression method writes
MaxSize == 12

\* sizes of the input file: powers of two, so that compressed_size /
\* original_size and compression_ratio are exact in binary floating point,
\* round(compression_ratio, 2) is the ratio itself, and no ratio equals a
\* target compression_percentage * 0.8
OriginalSizes == {4, 8, 16}

\* compression_ratio = (1 - compressed_size / original_size) * 100, in hundredths
Ratio100(compressed_size, orig) == ((orig - compressed_size) * 10000) \div orig

\* the dict stored as best_compression_result
BestResult(compressed_size, orig) ==
    [original_size |-> orig,
     compressed_size |-> compressed_size,
     compression_percentage |-> Ratio100(compressed_size, orig)]

\* best_compression_result is None or compression_ratio > best[...]
UpdateBest(best, compressed_size, orig) ==
    IF best = <<>> \/ Ratio100(compressed_size, orig) > best[1].compression_percentage
    THEN <<BestResult(compressed_size, orig)>>
    ELSE best

\* compression_ratio >= compression_percentage * 0.8
MeetsTarget(compressed_size, orig, compression_percentage) ==
    Ratio100(compressed_size, orig) >= compression_percentage * 80

\* the loop body after method(...) returned and left compressed_size bytes
AfterMethod(best, compressed_size, orig, compression_percentage) ==
    IF compressed_size < orig
    THEN [best |-> UpdateBest(best, compressed_size, orig),
          returned |-> MeetsTarget(compressed_size, orig, compression_percentage)]
    ELSE [best |-> best, returned |-> FALSE]

PdfInit ==
    /\ input = <<>>
    /\ pct \in Percentages
    /\ calls = <<>>
    /\ cres = NoCall
    /\ dres = NoDres
    /\ fres = NoFres
    /\ huffFile = NoFile
    /\ outFile = NoFile
    /\ freq_map = <<>>
    /\ heap = <<>>
    /\ merges = 0
    /\ tpc = "off"
    /\ tree = <<>>
    /\ codes = <<>>
    /\ ppc = "start"
    /\ is_pdf \in BOOLEAN
    /\ original_size \in OriginalSizes
    /\ out_size = NoSize
    /\ method_i = 0
    /\ best_compression_result = <<>>
    /\ pdf_ret = <<>>

\* the two validations, then the loop is entered with no best result
Validate ==
    /\ ppc = "start"
    /\ IF is_pdf /\ 0 < pct /\ pct <= 100
       THEN /\ ppc' = "loop"
            /\ method_i' = 1
       ELSE /\ ppc' = "raised"
            /\ method_i' = method_i
    /\ UNCHANGED <<is_pdf, original_size, out_size, best_compression_result, pdf_ret>>
    /\ UNCHANGED fvars
    /\ UNCHANGED tvars

\* the method raises before it opens output_path
MethodFailsEarly ==
    /\ ppc = "loop"
    /\ method_i <= 3
    /\ method_i' = method_i + 1
    /\ UNCHANGED <<ppc, is_pdf, original_size, out_size, best_compression_result, pdf_ret>>
    /\ UNCHANGED fvars
    /\ UNCHANGED tvars

\* the method raises while it writes output_path, which it opened with 'wb'
MethodFailsWriting ==
    /\ ppc = "loop"
    /\ method_i <= 3
    /\ \E s \in 0..MaxSize : out_size' = s
    /\ method_i' = method_i + 1
    /\ UNCHANGED <<ppc, is_pdf, original_size, best_compression_result, pdf_ret>>
    /\ UNCHANGED fvars
    /\ UNCHANGED tvars

\* the method returns, having written output_path; the rest of the loop body
MethodSucceeds ==
    /\ ppc = "loop"
    /\ method_i <= 3
    /\ \E s \in 1..MaxSize :
          /\ out_size' = s
          /\ \E r \in {AfterMethod(best_compression_result, s, original_size, pct)} :
                /\ best_compression_result' = r.best
                /\ IF r.returned
                   THEN /\ ppc' = "returned"
                        /\ pdf_ret' = r.best
                        /\ method_i' = method_i
                   ELSE /\ ppc' = "loop"
                        /\ pdf_ret' = pdf_ret
                        /\ method_i' = method_i + 1
    /\ UNCHANGED <<is_pdf, original_size>>
    /\ UNCHANGED fvars
    /\ UNCHANGED tvars

\* after the loop: the best result if there is one, ValueError otherwise
AfterLoop ==
    /\ ppc = "loop"
    /\ method_i > 3
    /\ IF best_compression_result # <<>>
       THEN /\ ppc' = "returned"
            /\ pdf_ret' = best_compression_result
       ELSE /\ ppc' = "raised"
            /\ pdf_ret' = pdf_ret
    /\ UNCHANGED <<is_pdf, original_size, out_size, method_i, best_compression_result>>
    /\ UNCHANGED fvars
    /\ UNCHANGED tvars

PdfNext == Validate \/ MethodFailsEarly \/ MethodFailsWriting \/ MethodSucceeds \/ AfterLoop

SpecPdf == PdfInit /\ [][PdfNext]_vars

\* ============================================================== properties
Symbols(s) == {s[i] : i \in 1..Len(s)}
Count(s, S) == Cardinality({i \in 1..Len(s) : s[i] \in S})
Without(s, S) == SelectSeq(s, LAMBDA c : c \notin S)
IsPrefix(a, b) == Len(a) <= Len(b) /\ SubSeq(b, 1, Len(a)) = a
PrefixFree(table) ==
    \A i, j \in 1..Len(table) : i # j => ~IsPrefix(table[i][2], table[j][2])
Compressed == calls # <<>> /\ calls[1] \in {"compress", "compress_file"}
RoundTripped == calls = <<"compress", "decompress">>
InRange(p) == 0 < p /\ p <= 100

\* C1: for every non-empty input and compression_percentage = 100,
\* decompress(*compress(input, 100)) returns the input exactly, inputs of a
\* single distinct symbol included.
C1_LosslessRoundTrip ==
    (RoundTripped /\ input # <<>> /\ pct = 100)
        => (dres.err = "none" /\ dres.out = input)

\* C2: for every non-empty input and 0 < p < 100, decompressing the result of
\* compress(input, p) yields the input without the symbols of chars_to_remove,
\* the retained symbols in their original order.
C2_LossyRoundTrip ==
    (RoundTripped /\ input # <<>> /\ 0 < pct /\ pct < 100)
        => (dres.err = "none" /\ dres.out = Without(input, cres.locals.chars_to_remove))

\* C3: compress and compress_file called with a percentage outside (0,100]
\* fail with an error before any processing: no DropSet is computed, no code
\* table is built and no container is written.
C3_InvalidPercentageRejected ==
    (Compressed /\ Len(calls) = 1 /\ ~InRange(pct))
        => /\ calls = <<"compress">> => cres.err # "none"
           /\ calls = <<"compress_file">> => fres.err # "none"
           /\ ~cres.locals.filtered
           /\ ~cres.locals.built
           /\ huffFile = NoFile

\* C4: compress of the empty input returns an empty payload and an empty code
\* table without running the filter or the tree build, and decompress of that
\* pair returns the empty string without error.
C4_EmptyRoundTrip ==
    (RoundTripped /\ input = <<>> /\ InRange(pct))
        => /\ cres.ret_data = <<>>
           /\ cres.ret_codes = <<>>
           /\ ~cres.locals.filtered
           /\ ~cres.locals.built
           /\ dres.err = "none"
           /\ dres.out = <<>>

\* C5: decompress_file completes without error on every container written by
\* compress_file with a percentage in (0,100], the all-symbols-dropped
\* fallback included.
C5_ContainerDecodes ==
    (calls = <<"compress_file", "decompress_file">> /\ InRange(pct))
        => fres.err = "none"

C7_PrefixFree ==
    (tpc = "coded" /\ freq_map # <<>>)
        => /\ PrefixFree(codes)
           /\ Keys(codes) = Keys(freq_map)
           /\ Len(codes) = Len(freq_map)

\* C7 witness: a table of four codes of three different lengths
C7_Witness ==
    /\ tpc = "coded"
    /\ Len(codes) = 4
    /\ Cardinality({Len(codes[i][2]) : i \in 1..Len(codes)}) = 3

\* C8: every code of a code table returned by compress has length >= 1; a
\* single retained symbol gets a 1-bit code, never the empty string.
C8_NoEmptyCode ==
    Compressed => \A i \in 1..Len(cres.ret_codes) : Len(cres.ret_codes[i][2]) >= 1

\* C9: compress_file on an empty input file completes normally, leaves a
\* container with an empty payload, an empty code table and original_length 0,
\* and returns its result record.
C9_EmptyFileCompresses ==
    (calls = <<"compress_file">> /\ input = <<>> /\ InRange(pct))
        => /\ fres.err = "none"
           /\ huffFile = pickle_dump(Container(<<>>, <<>>, <<0>>))

\* C10: when the base64 or the zlib step fails on the payload of the container,
\* decompress_file raises, leaves the output file as it was (not created, not
\* modified) and hands no decoded data on.
C10_CorruptPayloadNoOutput ==
    [][(/\ calls' = Append(calls, "decompress_file")
        /\ huffFile[1] = "pickle"
        /\ decompress(huffFile[2].compressed_data, huffFile[2].codes).err
              \in {"base64", "zlib"})
          => /\ fres'.err = "ValueError"
             /\ fres'.decoded = <<>>
             /\ outFile' = outFile]_vars

\* C10 witness: an uploaded container whose payload is not base64 was
\* rejected while an older output file existed
C10_Witness ==
    /\ calls = <<"upload", "decompress_file">>
    /\ fres.cause = "base64"
    /\ fres.err = "ValueError"
    /\ outFile = StaleOut

\* what decompress_file wrote in the last call, if it wrote
Wrote ==
    /\ calls # <<>>
    /\ calls[Len(calls)] = "decompress_file"
    /\ fres.cause \in {"none", "latin1"}
    /\ huffFile[2].original_length # <<>>

SameCounts(a, b) ==
    /\ Len(a) = Len(b)
    /\ \A c \in Symbols(a) \cup Symbols(b) : Count(a, {c}) = Count(b, {c})
TableOf(table) == {table[i] : i \in 1..Len(table)}

\* C12: the tie-break among equal-frequency symbols is a fixed rule on the
\* frequency map, so two inputs with the same symbol counts and the same
\* percentage produce the same DropSet and the same code table.
C12_PermutationInvariant ==
    (calls = <<"compress">> /\ InRange(pct))
        => \A d \in Inputs :
              SameCounts(d, input)
                 => \A c2 \in {compress(d, pct)} :
                       /\ c2.locals.chars_to_remove = cres.locals.chars_to_remove
                       /\ TableOf(c2.ret_codes) = TableOf(cres.ret_codes)

\* the sum of the frequencies of the nodes of a heap
RECURSIVE HeapFreq(_)
HeapFreq(h) == IF h = <<>> THEN 0 ELSE h[1].freq + HeapFreq(Tail(h))

\* every internal node below and at n has two children and their summed frequency
RECURSIVE SumsChildren(_)
SumsChildren(n) ==
    \/ n.kids = <<>>
    \/ /\ Len(n.kids) = 2
       /\ n.freq = n.kids[1].freq + n.kids[2].freq
       /\ SumsChildren(n.kids[1])
       /\ SumsChildren(n.kids[2])

\* the leaves of a tree, left to right, as <<char, freq>>
RECURSIVE LeavesOf(_)
LeavesOf(n) ==
    IF n.kids = <<>> THEN <<<<n.char, n.freq>>>>
    ELSE LeavesOf(n.kids[1]) \o LeavesOf(n.kids[2])

TreeStateOk ==
    /\ tpc \in {"loop", "returned", "coded"}
          => /\ HeapFreq(heap) = SumFreq(freq_map)
             /\ \A i \in 1..Len(heap) : SumsChildren(heap[i])
             /\ Len(heap) + merges = Len(freq_map)
    /\ (tpc \in {"returned", "coded"} /\ Len(freq_map) >= 1)
          => /\ merges = Len(freq_map) - 1
             /\ Len(heap) = 1
             /\ tree = <<heap[1]>>
             /\ Len(LeavesOf(tree[1])) = Len(freq_map)
             /\ TableOf(LeavesOf(tree[1])) = TableOf(freq_map)

\* a step of the while loop: two nodes of the heap, neither heavier than any
\* node left, become the children of one new node; the others stay
MergeStepOk ==
    merges' # merges
        => /\ merges' = merges + 1
           /\ Len(heap') = Len(heap) - 1
           /\ \E i, j \in 1..Len(heap) : \E m \in 1..Len(heap') :
                 /\ i # j
                 /\ heap'[m].kids = <<heap[i], heap[j]>>
                 /\ heap'[m].freq = heap[i].freq + heap[j].freq
                 /\ {heap'[x] : x \in 1..Len(heap') \ {m}}
                       = {heap[k] : k \in 1..Len(heap) \ {i, j}}
                 /\ \A k \in 1..Len(heap) \ {i, j} :
                       /\ heap[i].freq <= heap[k].freq
                       /\ heap[j].freq <= heap[k].freq

\* C13: for a frequency map with k >= 1 symbols build_huffman_tree ends after
\* exactly k-1 merges with one root; at every step the frequencies of the
\* nodes in the heap sum to the total frequency, each merge takes two nodes
\* whose frequencies are <= every node left in the heap, every internal
\* node's frequency is the sum of its two children, and the leaves of the
\* final tree are exactly the symbols of the map, each once.
C13_TreeBuild == []TreeStateOk /\ [][MergeStepOk]_vars

\* C13 witness: four symbols of unequal counts merged three times into a root
\* whose left child is a leaf
C13_Witness ==
    /\ tpc = "returned"
    /\ merges = 3
    /\ Len(freq_map) = 4
    /\ Cardinality({freq_map[i][2] : i \in 1..4}) = 3
    /\ tree[1].kids[1].kids = <<>>
    /\ tree[1].freq = SumFreq(freq_map)

\* C14: whenever compress_pdf returns a result, after any sequence of
\* successes and failures of its three methods on the same output path, the
\* file at compressed_path is strictly smaller than the original and its size
\* is the returned compressed_size.
C14_ReturnedFileSmaller ==
    ppc = "returned"
        => /\ out_size < original_size
           /\ out_size = pdf_ret[1].compressed_size

====
